---- MODULE Spec2Model ----
(***************************************************************************)
(* A model of the ncurses terminal front end of the editor                 *)
(* (src/src/ncurses_ui.cc): the colour and colour-pair caches, the three   *)
(* surfaces (main pad, menu, info) with the resize handling, the key       *)
(* decoder and the menu and info layout.                                   *)
(*                                                                         *)
(* Strings are sequences of code points; a text made of lines is the       *)
(* sequence of its lines' lengths where only the lengths are read.  A      *)
(* CharCoord is a record [line, column].  The curses library is the        *)
(* environment: newpad gives no pad for a size that is not positive and    *)
(* may give none when memory is short; ungetch pushes on a stack that      *)
(* wgetch pops before it reads the terminal.                               *)
(***************************************************************************)
EXTENDS Integers, Sequences, FiniteSets, TLC

VARIABLES
    \* the terminal's capabilities and the static caches of nc_color / get_color_pair
    can_change_color, COLORS, palette,
    \* calls observed: get_color_pair's (pair, id) log, nc_color's last argument and result
    pair_log, nc_in, nc_ret,
    \* the terminal: its geometry <<rows, columns>>, a SIGWINCH not yet delivered
    term, sigwinch, resize_pending,
    \* NCursesUI's members
    m_window, m_dimensions, m_menu, m_info, m_items, m_menu_columns,
    m_menu_top_line, m_selected_item, m_menu_fg, m_menu_bg, m_dirty,
    m_status_on_top, m_assistant,
    \* the input side: curses' ungetch stack (top first), the units waiting on
    \* the terminal, the wtimeout mode of the main window (-1 blocking, 0 polling)
    ungot, tty, timeout,
    \* the last operation: its name, its arguments, the curses calls it made,
    \* the units get_key pulled and the key it returned
    op, args, ops, pulled, key,
    \* a check_resize run statement by statement: the statement it is at, and
    \* its local winsize ws as <<rows, columns>>
    cr_pc, ws,
    \* curses' clearok flag of curscr: the next doupdate repaints the whole
    \* terminal
    curscr_clear

vars == <<can_change_color, COLORS, palette, pair_log, nc_in, nc_ret,
          term, sigwinch, resize_pending,
          m_window, m_dimensions, m_menu, m_info, m_items, m_menu_columns,
          m_menu_top_line, m_selected_item, m_menu_fg, m_menu_bg, m_dirty,
          m_status_on_top, m_assistant, ungot, tty, timeout,
          op, args, ops, pulled, key, cr_pc, ws, curscr_clear>>

paletteVars == <<can_change_color, COLORS, palette, pair_log, nc_in, nc_ret>>

termVars == <<term, sigwinch, resize_pending>>

uiVars == <<m_window, m_dimensions, m_menu, m_info, m_items, m_menu_columns,
            m_menu_top_line, m_selected_item, m_menu_fg, m_menu_bg, m_dirty,
            m_status_on_top, m_assistant>>

inputVars == <<ungot, tty, timeout>>

lastVars == <<op, args, ops, pulled, key>>

stepVars == <<cr_pc, ws>>

----------------------------------------------------------------------------
(* Arithmetic of the C++ source.                                           *)

\* int division of C++: the quotient is truncated toward zero (b > 0)
CDiv(a, b) == IF a >= 0 THEN a \div b ELSE -((-a) \div b)

Min(a, b) == IF a < b THEN a ELSE b

Max(a, b) == IF a > b THEN a ELSE b

sq(x) == x * x

INT_MAX == 2147483647

RECURSIVE MaxOfSeq(_)
MaxOfSeq(s) == IF s = <<>> THEN 0 ELSE Max(Head(s), MaxOfSeq(Tail(s)))

----------------------------------------------------------------------------
(* Colours: nc_color and get_color_pair.                                   *)

NamedColor(n) == [color |-> n, r |-> 0, g |-> 0, b |-> 0]

RGB(r, g, b) == [color |-> "RGB", r |-> r, g |-> g, b |-> b]

Face(fg, bg) == [fg |-> fg, bg |-> bg]

\* the entries nc_color's map starts with
NamedSlot(n) ==
    CASE n = "Default" -> -1
      [] n = "Black"   -> 0
      [] n = "Red"     -> 1
      [] n = "Green"   -> 2
      [] n = "Yellow"  -> 3
      [] n = "Blue"    -> 4
      [] n = "Magenta" -> 5
      [] n = "Cyan"    -> 6
      [] n = "White"   -> 7

\* the reference palette, entry i of the source at index i + 1
builtin_colors == <<
    <<0,0,0>>, <<128,0,0>>, <<0,128,0>>, <<128,128,0>>,
    <<0,0,128>>, <<128,0,128>>, <<0,128,128>>, <<192,192,192>>,
    <<128,128,128>>, <<255,0,0>>, <<0,255,0>>, <<255,255,0>>,
    <<0,0,255>>, <<255,0,255>>, <<0,255,255>>, <<255,255,255>>,
    <<0,0,0>>, <<0,0,95>>, <<0,0,135>>, <<0,0,175>>,
    <<0,0,215>>, <<0,0,255>>, <<0,95,0>>, <<0,95,95>>,
    <<0,95,135>>, <<0,95,175>>, <<0,95,215>>, <<0,95,255>>,
    <<0,135,0>>, <<0,135,95>>, <<0,135,135>>, <<0,135,175>>,
    <<0,135,215>>, <<0,135,255>>, <<0,175,0>>, <<0,175,95>>,
    <<0,175,135>>, <<0,175,175>>, <<0,175,215>>, <<0,175,255>>,
    <<0,215,0>>, <<0,215,95>>, <<0,215,135>>, <<0,215,175>>,
    <<0,215,215>>, <<0,215,255>>, <<0,255,0>>, <<0,255,95>>,
    <<0,255,135>>, <<0,255,175>>, <<0,255,215>>, <<0,255,255>>,
    <<95,0,0>>, <<95,0,95>>, <<95,0,135>>, <<95,0,175>>,
    <<95,0,215>>, <<95,0,255>>, <<95,95,0>>, <<95,95,95>>,
    <<95,95,135>>, <<95,95,175>>, <<95,95,215>>, <<95,95,255>>,
    <<95,135,0>>, <<95,135,95>>, <<95,135,135>>, <<95,135,175>>,
    <<95,135,215>>, <<95,135,255>>, <<95,175,0>>, <<95,175,95>>,
    <<95,175,135>>, <<95,175,175>>, <<95,175,215>>, <<95,175,255>>,
    <<95,215,0>>, <<95,215,95>>, <<95,215,135>>, <<95,215,175>>,
    <<95,215,215>>, <<95,215,255>>, <<95,255,0>>, <<95,255,95>>,
    <<95,255,135>>, <<95,255,175>>, <<95,255,215>>, <<95,255,255>>,
    <<135,0,0>>, <<135,0,95>>, <<135,0,135>>, <<135,0,175>>,
    <<135,0,215>>, <<135,0,255>>, <<135,95,0>>, <<135,95,95>>,
    <<135,95,135>>, <<135,95,175>>, <<135,95,215>>, <<135,95,255>>,
    <<135,135,0>>, <<135,135,95>>, <<135,135,135>>, <<135,135,175>>,
    <<135,135,215>>, <<135,135,255>>, <<135,175,0>>, <<135,175,95>>,
    <<135,175,135>>, <<135,175,175>>, <<135,175,215>>, <<135,175,255>>,
    <<135,215,0>>, <<135,215,95>>, <<135,215,135>>, <<135,215,175>>,
    <<135,215,215>>, <<135,215,255>>, <<135,255,0>>, <<135,255,95>>,
    <<135,255,135>>, <<135,255,175>>, <<135,255,215>>, <<135,255,255>>,
    <<175,0,0>>, <<175,0,95>>, <<175,0,135>>, <<175,0,175>>,
    <<175,0,215>>, <<175,0,255>>, <<175,95,0>>, <<175,95,95>>,
    <<175,95,135>>, <<175,95,175>>, <<175,95,215>>, <<175,95,255>>,
    <<175,135,0>>, <<175,135,95>>, <<175,135,135>>, <<175,135,175>>,
    <<175,135,215>>, <<175,135,255>>, <<175,175,0>>, <<175,175,95>>,
    <<175,175,135>>, <<175,175,175>>, <<175,175,215>>, <<175,175,255>>,
    <<175,215,0>>, <<175,215,95>>, <<175,215,135>>, <<175,215,175>>,
    <<175,215,215>>, <<175,215,255>>, <<175,255,0>>, <<175,255,95>>,
    <<175,255,135>>, <<175,255,175>>, <<175,255,215>>, <<175,255,255>>,
    <<215,0,0>>, <<215,0,95>>, <<215,0,135>>, <<215,0,175>>,
    <<215,0,215>>, <<215,0,255>>, <<215,95,0>>, <<215,95,95>>,
    <<215,95,135>>, <<215,95,175>>, <<215,95,215>>, <<215,95,255>>,
    <<215,135,0>>, <<215,135,95>>, <<215,135,135>>, <<215,135,175>>,
    <<215,135,215>>, <<215,135,255>>, <<215,175,0>>, <<215,175,95>>,
    <<215,175,135>>, <<215,175,175>>, <<215,175,215>>, <<215,175,255>>,
    <<215,215,0>>, <<215,215,95>>, <<215,215,135>>, <<215,215,175>>,
    <<215,215,215>>, <<215,215,255>>, <<215,255,0>>, <<215,255,95>>,
    <<215,255,135>>, <<215,255,175>>, <<215,255,215>>, <<215,255,255>>,
    <<255,0,0>>, <<255,0,95>>, <<255,0,135>>, <<255,0,175>>,
    <<255,0,215>>, <<255,0,255>>, <<255,95,0>>, <<255,95,95>>,
    <<255,95,135>>, <<255,95,175>>, <<255,95,215>>, <<255,95,255>>,
    <<255,135,0>>, <<255,135,95>>, <<255,135,135>>, <<255,135,175>>,
    <<255,135,215>>, <<255,135,255>>, <<255,175,0>>, <<255,175,95>>,
    <<255,175,135>>, <<255,175,175>>, <<255,175,215>>, <<255,175,255>>,
    <<255,215,0>>, <<255,215,95>>, <<255,215,135>>, <<255,215,175>>,
    <<255,215,215>>, <<255,215,255>>, <<255,255,0>>, <<255,255,95>>,
    <<255,255,135>>, <<255,255,175>>, <<255,255,215>>, <<255,255,255>>,
    <<8,8,8>>, <<18,18,18>>, <<28,28,28>>, <<38,38,38>>,
    <<48,48,48>>, <<58,58,58>>, <<68,68,68>>, <<78,78,78>>,
    <<88,88,88>>, <<96,96,96>>, <<102,102,102>>, <<118,118,118>>,
    <<128,128,128>>, <<138,138,138>>, <<148,148,148>>, <<158,158,158>>,
    <<168,168,168>>, <<178,178,178>>, <<188,188,188>>, <<198,198,198>>,
    <<208,208,208>>, <<218,218,218>>, <<228,228,228>>, <<238,238,238>>
>>

\* the component scaling of init_color's arguments
scale(c) == CDiv(c * 1000, 255)

\* restore_colors: the init_color calls it makes, one for each slot from 16
\* up to COLORS, with the reference palette's entry
restore_colors ==
    [k \in 1 .. Max(0, Min(COLORS, 256) - 16) |->
        LET c == builtin_colors[k + 16]
        IN  <<"init_color", k + 15, scale(c[1]), scale(c[2]), scale(c[3])>>]

\* the static state of nc_color and get_color_pair when the process starts:
\* colors holds the RGB entries added to the map, hw the slots init_color programmed
InitPaletteState ==
    [colors |-> << >>, next_color |-> 16, hw |-> << >>,
     colorpairs |-> << >>, next_pair |-> 1]

\* the body of the nearest-match loop for index i: st is <<lowestDist, closestCol>>
nearest_step(color, i, st) ==
    LET col  == builtin_colors[i + 1]
        dist == sq(color.r - col[1]) + sq(color.g - col[2]) + sq(color.b - col[3])
    IN  IF dist < st[1] THEN <<dist, i>> ELSE st

\* the nearest-match loop over the indices lo .. hi - 1 in ascending order,
\* run half by half; the test on the first half's result (a distance is
\* never negative) makes TLC finish the first half before the second
RECURSIVE nearest_scan(_, _, _, _)
nearest_scan(color, lo, hi, st) ==
    IF lo >= hi THEN st
    ELSE IF hi = lo + 1 THEN nearest_step(color, lo, st)
    ELSE LET mid   == (lo + hi) \div 2
             first == nearest_scan(color, lo, mid, st)
         IN  IF first[1] >= 0 THEN nearest_scan(color, mid, hi, first) ELSE first

\* the nearest-match branch taking the last of the nearest entries, as a loop
\* comparing with <= would
nearest_color_last(color) ==
    LET n    == Min(256, COLORS)
        D(j) == sq(color.r - builtin_colors[j + 1][1])
                + sq(color.g - builtin_colors[j + 1][2])
                + sq(color.b - builtin_colors[j + 1][3])
    IN  CHOOSE j \in 0 .. n - 1 :
            \A k \in 0 .. n - 1 : D(j) < D(k) \/ (D(j) = D(k) /\ k <= j)

\* the nearest-match branch: the scan over the first min(256, COLORS) entries
nearest_color(color) ==
    nearest_scan(color, 0, Min(256, COLORS), <<INT_MAX, -1>>)[2]

\* nc_color on the static state P: the state after it and the index returned
nc_color(P, color) ==
    IF color.color # "RGB"
    THEN [pal |-> P, ret |-> NamedSlot(color.color)]
    ELSE IF color \in DOMAIN P.colors
    THEN [pal |-> P, ret |-> P.colors[color]]
    ELSE IF can_change_color /\ COLORS > 16
    THEN LET slot == IF P.next_color > COLORS THEN 16 ELSE P.next_color
         IN  [pal |-> [P EXCEPT
                          !.hw = (slot :> <<scale(color.r), scale(color.g),
                                            scale(color.b)>>) @@ @,
                          !.colors = (color :> slot) @@ @,
                          !.next_color = slot + 1],
              ret |-> slot]
    ELSE [pal |-> P, ret |-> nearest_color(color)]

\* get_color_pair that programs the pair and forgets to enter it in the cache
get_color_pair_nocache(P, face) ==
    LET key0 == <<face.fg, face.bg>>
        P1   == nc_color(P, face.fg).pal
        P2   == nc_color(P1, face.bg).pal
    IN  [pal |-> [P2 EXCEPT !.next_pair = @ + 1], id |-> P.next_pair]

\* get_color_pair on the static state P: the state after it and the id
\* returned.  nc_color(face.fg) is taken before nc_color(face.bg); the order
\* the compiler picks decides only which slot a new colour gets, not the id.
get_color_pair(P, face) ==
    LET key0 == <<face.fg, face.bg>>
    IN  IF key0 \in DOMAIN P.colorpairs
        THEN [pal |-> P, id |-> P.colorpairs[key0]]
        ELSE LET P1 == nc_color(P, face.fg).pal
                 P2 == nc_color(P1, face.bg).pal
             IN  [pal |-> [P2 EXCEPT !.colorpairs = (key0 :> P.next_pair) @@ @,
                                     !.next_pair = @ + 1],
                  id |-> P.next_pair]

\* set_face: Default components are replaced by the default face's, then a
\* pair is looked up unless both stay Default
set_face(P, face, default_face) ==
    LET fg == IF face.fg.color = "Default" THEN default_face.fg ELSE face.fg
        bg == IF face.bg.color = "Default" THEN default_face.bg ELSE face.bg
    IN  IF fg.color # "Default" \/ bg.color # "Default"
        THEN get_color_pair(P, Face(fg, bg)).pal
        ELSE P

----------------------------------------------------------------------------
(* Surfaces.                                                               *)

Coord(l, c) == [line |-> l, column |-> c]

Zero == Coord(0, 0)

\* a Window that was never created, or was destroyed
NoWindow == [win |-> FALSE, pos |-> Zero, size |-> Zero]

\* curses' newpad: no pad for a size that is not positive, and none when the
\* allocation fails (ok is FALSE)
newpad(lines, columns, ok) == lines > 0 /\ columns > 0 /\ ok

\* Window::create: the position and size are stored, then the handle
Window_create(p, s, ok) ==
    [win |-> newpad(s.line, s.column, ok), pos |-> p, size |-> s]

\* Window::destroy
Window_destroy(w) == NoWindow

\* Window::refresh: nothing without a handle
Window_refresh(w, name) ==
    IF ~w.win THEN << >>
    ELSE << <<"redrawwin", name>>, <<"pnoutrefresh", name>> >>

\* redraw with the overlays composited in the other order
redraw_info_first(menu, info) ==
    << <<"pnoutrefresh", "main">> >> \o Window_refresh(info, "info")
        \o Window_refresh(menu, "menu") \o << <<"doupdate", "screen">> >>

\* redraw: the curses calls it makes, in order, with the menu and info
\* windows as they are when it runs
redraw(menu, info) ==
    << <<"pnoutrefresh", "main">> >> \o Window_refresh(menu, "menu")
        \o Window_refresh(info, "info") \o << <<"doupdate", "screen">> >>

----------------------------------------------------------------------------
(* The resize handling.                                                    *)

ERR == -1

KEY_RESIZE == 410

KEY_MOUSE == 409

\* check_resize keeping the status row in the dimensions
check_resize_norow(force, ok) ==
    IF ~force /\ resize_pending = 0
    THEN [performed |-> FALSE, window |-> m_window, info |-> m_info,
          menu |-> m_menu, dimensions |-> m_dimensions, ungot |-> ungot,
          resize_pending |-> resize_pending, ops |-> << >>]
    ELSE [performed |-> TRUE,
          window |-> [win |-> newpad(term[1], term[2], ok),
                      size |-> Coord(term[1], term[2])],
          info |-> IF m_info.win THEN Window_destroy(m_info) ELSE m_info,
          menu |-> IF m_menu.win THEN Window_destroy(m_menu) ELSE m_menu,
          dimensions |-> Coord(term[1], term[2]),
          ungot |-> <<KEY_RESIZE>> \o ungot,
          resize_pending |-> 0,
          ops |-> << <<"resize_term", "screen">>, <<"newpad", "main">>,
                     <<"ungetch", "KEY_RESIZE">>, <<"clearok", "curscr">>,
                     <<"werase", "curscr">> >>]

\* check_resize(force), with the geometry the terminal has when it is asked
\* and the outcome ok of the main pad's allocation: what it leaves in the
\* members it writes, and the curses calls it made
check_resize(force, ok) ==
    IF ~force /\ resize_pending = 0
    THEN [performed |-> FALSE, window |-> m_window, info |-> m_info,
          menu |-> m_menu, dimensions |-> m_dimensions, ungot |-> ungot,
          resize_pending |-> resize_pending, ops |-> << >>]
    ELSE [performed |-> TRUE,
          window |-> [win |-> newpad(term[1], term[2], ok),
                      size |-> Coord(term[1], term[2])],
          info |-> IF m_info.win THEN Window_destroy(m_info) ELSE m_info,
          menu |-> IF m_menu.win THEN Window_destroy(m_menu) ELSE m_menu,
          dimensions |-> Coord(term[1] - 1, term[2]),
          ungot |-> <<KEY_RESIZE>> \o ungot,
          resize_pending |-> 0,
          ops |-> << <<"resize_term", "screen">>, <<"newpad", "main">>,
                     <<"ungetch", "KEY_RESIZE">>, <<"clearok", "curscr">>,
                     <<"werase", "curscr">> >>]

----------------------------------------------------------------------------
(* Keys.                                                                   *)

Key(kind, code, name, pos) ==
    [kind |-> kind, code |-> code, name |-> name, pos |-> pos]

NoKey == Key("none", 0, "", Zero)

Named(name) == Key("named", 0, name, Zero)

Invalid == Named("Invalid")

CharKey(cp) == Key("char", cp, "", Zero)

ctrl(cp) == Key("ctrl", cp, "", Zero)

alt(cp) == Key("alt", cp, "", Zero)

ctrlalt(cp) == Key("ctrlalt", cp, "", Zero)

resize(dim) == Key("resize", 0, "Resize", dim)

MouseKey(name, pos) == Key("mouse", 0, name, pos)

\* constexpr char control(char c) { return c & 037; }
control(c) == c % 32

ESC == 27

KEY_DOWN == 258

KEY_UP == 259

KEY_LEFT == 260

KEY_RIGHT == 261

KEY_HOME == 262

KEY_BACKSPACE == 263

KEY_F0 == 264

KEY_DC == 330

KEY_NPAGE == 338

KEY_PPAGE == 339

KEY_BTAB == 353

KEY_END == 360

DEL == 127

\* the wheel buttons set_ui_options falls back to
m_wheel_down_button == 2

m_wheel_up_button == 4

\* the value wgetch stands for when it would wait for input
BLOCKED == -2

\* wgetch on the input source S = [ungot, tty] in wtimeout mode tmo; win is
\* whether the main window has a handle
wgetch(S, tmo, win) ==
    IF ~win THEN [c |-> ERR, src |-> S]
    ELSE IF S.ungot # << >>
    THEN [c |-> Head(S.ungot), src |-> [S EXCEPT !.ungot = Tail(@)]]
    ELSE IF S.tty # << >>
    THEN [c |-> Head(S.tty), src |-> [S EXCEPT !.tty = Tail(@)]]
    ELSE IF tmo = 0 THEN [c |-> ERR, src |-> S]
    ELSE [c |-> BLOCKED, src |-> S]

\* ungetch
ungetch(S, c) == [S EXCEPT !.ungot = <<c>> \o @]

\* what get_key returns: the key, the input source and timeout mode it
\* leaves, the units it pulled and the calls it made
KeyResult(k, S, tmo, got, calls) ==
    [key |-> k, src |-> S, timeout |-> tmo, pulled |-> got, ops |-> calls,
     blocked |-> BLOCKED \in {got[i] : i \in 1 .. Len(got)}]

\* the number of continuation units after the lead unit of a UTF-8 sequence
utf8_continuations(byte) ==
    IF byte < 128 THEN 0
    ELSE IF byte \div 32 = 6 THEN 1
    ELSE IF byte \div 16 = 14 THEN 2
    ELSE IF byte \div 8 = 30 THEN 3
    ELSE 0

\* utf8::codepoint over wgetch: the lead unit, then its continuation units
RECURSIVE utf8_read(_, _, _, _, _, _)
utf8_read(S, tmo, win, n, cp, got) ==
    IF n = 0 \/ BLOCKED \in {got[i] : i \in 1 .. Len(got)}
    THEN [cp |-> cp, src |-> S, pulled |-> got]
    ELSE LET r == wgetch(S, tmo, win)
         IN  utf8_read(r.src, tmo, win, n - 1, cp * 64 + (r.c % 64),
                       Append(got, r.c))

utf8_codepoint(S, tmo, win) ==
    LET r    == wgetch(S, tmo, win)
        byte == r.c % 256
        n    == utf8_continuations(byte)
        lead == IF n = 0 THEN byte
                ELSE IF n = 1 THEN byte % 32
                ELSE IF n = 2 THEN byte % 16
                ELSE byte % 8
    IN  utf8_read(r.src, tmo, win, n, lead, <<r.c>>)

\* the mouse branch: the key for the event getmouse gave
mouse_key(ev) ==
    LET pos == Coord(ev.y - (IF m_status_on_top THEN 1 ELSE 0), ev.x)
    IN  IF <<1, "press">> \in ev.bstate THEN MouseKey("press", pos)
        ELSE IF <<1, "release">> \in ev.bstate THEN MouseKey("release", pos)
        ELSE IF <<m_wheel_down_button, "press">> \in ev.bstate
        THEN MouseKey("wheel_down", pos)
        ELSE IF <<m_wheel_up_button, "press">> \in ev.bstate
        THEN MouseKey("wheel_up", pos)
        ELSE MouseKey("pos", pos)

\* the control branch with control-Z decoded like the other letters
control_key_no_suspend(c, cr, S, tmo, got) ==
    KeyResult(ctrl(c - 1 + 97), S, tmo, got,
              cr.ops \o (IF c = control(108)
                         THEN << <<"redrawwin", "main">> >>
                              \o redraw(cr.menu, cr.info)
                         ELSE << >>))

\* the branch of get_key for a unit c in 1 .. 26
control_key(c, cr, S, tmo, got) ==
    LET calls1 == cr.ops \o (IF c = control(108)
                             THEN << <<"redrawwin", "main">> >>
                                  \o redraw(cr.menu, cr.info)
                             ELSE << >>)
    IN  IF c = control(122)
        THEN KeyResult(Invalid, S, tmo, got,
                       calls1 \o << <<"raise", "SIGTSTP">> >>)
        ELSE KeyResult(ctrl(c - 1 + 97), S, tmo, got, calls1)

\* the escape branch taking every unit after ESC as an alt key
escape_key_no_ctrlalt(S, win, got, calls) ==
    LET r2    == wgetch(S, 0, win)
        new_c == r2.c
        r3    == wgetch(r2.src, 0, win)
    IN  IF new_c = 91 /\ r3.c = 73
        THEN KeyResult(Named("FocusIn"), r3.src, 0, got \o <<new_c, r3.c>>, calls)
        ELSE IF new_c = 91 /\ r3.c = 79
        THEN KeyResult(Named("FocusOut"), r3.src, 0, got \o <<new_c, r3.c>>, calls)
        ELSE LET S3   == IF new_c = 91 THEN r3.src ELSE r2.src
                 got3 == IF new_c = 91 THEN got \o <<new_c, r3.c>>
                         ELSE Append(got, new_c)
             IN  IF new_c # ERR
                 THEN KeyResult(alt(new_c), S3, -1, got3, calls)
                 ELSE KeyResult(Named("Escape"), S3, -1, got3, calls)

\* the branch of get_key for ESC: the zero-timeout peeks after it
escape_key(S, win, got, calls) ==
    LET r2    == wgetch(S, 0, win)
        new_c == r2.c
        r3    == wgetch(r2.src, 0, win)
    IN  IF new_c = 91 /\ r3.c = 73
        THEN KeyResult(Named("FocusIn"), r3.src, 0, got \o <<new_c, r3.c>>, calls)
        ELSE IF new_c = 91 /\ r3.c = 79
        THEN KeyResult(Named("FocusOut"), r3.src, 0, got \o <<new_c, r3.c>>, calls)
        ELSE LET S3   == IF new_c = 91 THEN r3.src ELSE r2.src
                 got3 == IF new_c = 91 THEN got \o <<new_c, r3.c>>
                         ELSE Append(got, new_c)
             IN  IF new_c # ERR
                 THEN IF new_c > 0 /\ new_c < 27
                      THEN KeyResult(ctrlalt(new_c - 1 + 97), S3, -1, got3, calls)
                      ELSE KeyResult(alt(new_c), S3, -1, got3, calls)
                 ELSE KeyResult(Named("Escape"), S3, -1, got3, calls)

\* the switch without the case of KEY_BTAB
named_key_no_backtab(c, dim) ==
    CASE c = KEY_BACKSPACE \/ c = DEL -> Named("Backspace")
      [] c = KEY_DC    -> Named("Delete")
      [] c = KEY_UP    -> Named("Up")
      [] c = KEY_DOWN  -> Named("Down")
      [] c = KEY_LEFT  -> Named("Left")
      [] c = KEY_RIGHT -> Named("Right")
      [] c = KEY_PPAGE -> Named("PageUp")
      [] c = KEY_NPAGE -> Named("PageDown")
      [] c = KEY_HOME  -> Named("Home")
      [] c = KEY_END   -> Named("End")
      [] c = KEY_RESIZE -> resize(dim)
      [] OTHER -> NoKey

\* the switch over the named keys; NoKey when no case matches
named_key(c, dim) ==
    CASE c = KEY_BACKSPACE \/ c = DEL -> Named("Backspace")
      [] c = KEY_DC    -> Named("Delete")
      [] c = KEY_UP    -> Named("Up")
      [] c = KEY_DOWN  -> Named("Down")
      [] c = KEY_LEFT  -> Named("Left")
      [] c = KEY_RIGHT -> Named("Right")
      [] c = KEY_PPAGE -> Named("PageUp")
      [] c = KEY_NPAGE -> Named("PageDown")
      [] c = KEY_HOME  -> Named("Home")
      [] c = KEY_END   -> Named("End")
      [] c = KEY_BTAB  -> Named("BackTab")
      [] c = KEY_RESIZE -> resize(dim)
      [] OTHER -> NoKey

\* get_key after its check_resize, on the input source S in mode tmo: cr is
\* what check_resize left, ev the event getmouse gives (ev.ok: whether it
\* gives one)
get_key(cr, S, tmo, ev) ==
    LET win == cr.window.win
        r1  == wgetch(S, tmo, win)
        c   == r1.c
        got == <<c>>
        nk  == named_key(c, cr.dimensions)
    IN  IF c = BLOCKED THEN KeyResult(NoKey, S, tmo, got, cr.ops)
        ELSE IF c = KEY_MOUSE /\ ev.ok
        THEN KeyResult(mouse_key(ev), r1.src, tmo, got,
                       cr.ops \o << <<"getmouse", "OK">> >>)
        ELSE IF c = KEY_MOUSE
        THEN KeyResult(Invalid, r1.src, tmo, got,
                       cr.ops \o << <<"getmouse", "ERR">> >>)
        ELSE IF c > 0 /\ c < 27
        THEN control_key(c, cr, r1.src, tmo, got)
        ELSE IF c = ESC
        THEN escape_key(r1.src, win, got, cr.ops)
        ELSE IF nk # NoKey
        THEN KeyResult(nk, r1.src, tmo, got, cr.ops)
        ELSE IF \E i \in 0 .. 11 : c = KEY_F0 + i + 1
        THEN KeyResult(Key("named", c - KEY_F0, "F", Zero), r1.src, tmo, got, cr.ops)
        ELSE IF c >= 0 /\ c < 256
        THEN LET u == utf8_codepoint(ungetch(r1.src, c), tmo, win)
             IN  KeyResult(CharKey(u.cp), u.src, tmo, got \o Tail(u.pulled),
                           cr.ops \o << <<"ungetch", "c">> >>)
        ELSE KeyResult(Invalid, r1.src, tmo, got, cr.ops)

----------------------------------------------------------------------------
(* The menu.                                                               *)

\* template<typename T> T div_round_up(T a, T b)
div_round_up(a, b) == CDiv(a - 1, b) + 1

\* the height a menu is limited to
MaxMenuHeight == 10

\* the length an item is cut to at most
MaxItemLen == 200

\* String::substr(0_char, n)
substr(s, n) == SubSeq(s, 1, Min(Len(s), Max(n, 0)))

\* menu_hide: what it leaves in the members it writes
menu_hide ==
    IF ~m_menu.win
    THEN [menu |-> m_menu, items |-> m_items, dirty |-> m_dirty, ops |-> << >>]
    ELSE [menu |-> Window_destroy(m_menu), items |-> << >>, dirty |-> TRUE,
          ops |-> << <<"wredrawln", "main">>, <<"delwin", "menu">> >>]

\* draw_menu on the static colour state P: nothing without a menu window,
\* else the two pairs are looked up, the cells drawn and the dirty flag set
draw_menu(P, menu, fg, bg, dirty) ==
    IF ~menu.win
    THEN [pal |-> P, dirty |-> dirty, ops |-> << >>]
    ELSE [pal |-> get_color_pair(get_color_pair(P, fg).pal, bg).pal,
          dirty |-> TRUE, ops |-> << <<"draw", "menu">> >>]

\* a menu_show that stored the items whole, without cutting them to the
\* columns left
menu_show_whole_items(items, anchor0, fg, bg, style, ok) ==
    LET h       == menu_hide
        anchor  == IF style = "Prompt"
                   THEN Coord(IF m_status_on_top THEN 0 ELSE m_dimensions.line, 0)
                   ELSE IF m_status_on_top
                   THEN Coord(anchor0.line + 1, anchor0.column)
                   ELSE anchor0
        maxsize == Coord(m_dimensions.line, m_dimensions.column - anchor.column)
        item_count == Len(items)
        longest == MaxOfSeq([i \in 1 .. item_count |-> Len(items[i])]) + 1
        is_prompt == style = "Prompt"
        columns == IF is_prompt THEN CDiv(maxsize.column - 1, longest) ELSE 1
        height  == IF columns = 0 THEN MaxMenuHeight
                   ELSE Min(MaxMenuHeight, div_round_up(item_count, columns))
        line0   == anchor.line + 1
        line    == IF line0 + height >= maxsize.line
                   THEN anchor.line - height ELSE line0
        width   == IF is_prompt THEN maxsize.column ELSE longest
        menu    == Window_create(Coord(line, anchor.column),
                                 Coord(height, width), ok)
    IN  IF maxsize.column <= 2
        THEN [menu |-> h.menu, items |-> h.items, columns |-> m_menu_columns,
              selected |-> m_selected_item, top |-> m_menu_top_line,
              dirty |-> h.dirty, pal |-> palette, ops |-> h.ops]
        ELSE [menu |-> menu, items |-> h.items \o items, columns |-> columns,
              selected |-> item_count, top |-> 0,
              dirty |-> TRUE, pal |-> palette,
              ops |-> h.ops \o << <<"newpad", "menu">> >>]

\* menu_show: what it leaves in the members it writes; ok is the outcome of
\* the pad's allocation
menu_show(items, anchor0, fg, bg, style, ok) ==
    LET h       == menu_hide
        anchor  == IF style = "Prompt"
                   THEN Coord(IF m_status_on_top THEN 0 ELSE m_dimensions.line, 0)
                   ELSE IF m_status_on_top
                   THEN Coord(anchor0.line + 1, anchor0.column)
                   ELSE anchor0
        maxsize == Coord(m_dimensions.line, m_dimensions.column - anchor.column)
        item_count == Len(items)
        maxlen  == Min(maxsize.column - 2, MaxItemLen)
        pushed  == [i \in 1 .. item_count |-> substr(items[i], maxlen)]
        longest == MaxOfSeq([i \in 1 .. item_count |-> Len(pushed[i])]) + 1
        is_prompt == style = "Prompt"
        columns == IF is_prompt THEN CDiv(maxsize.column - 1, longest) ELSE 1
        height  == Min(MaxMenuHeight, div_round_up(item_count, columns))
        line0   == anchor.line + 1
        line    == IF line0 + height >= maxsize.line
                   THEN anchor.line - height ELSE line0
        width   == IF is_prompt THEN maxsize.column ELSE longest
        menu    == Window_create(Coord(line, anchor.column),
                                 Coord(height, width), ok)
        d       == draw_menu(palette, menu, fg, bg, h.dirty)
    IN  IF maxsize.column <= 2
        THEN [menu |-> h.menu, items |-> h.items, columns |-> m_menu_columns,
              selected |-> m_selected_item, top |-> m_menu_top_line,
              dirty |-> h.dirty, pal |-> palette, ops |-> h.ops]
        ELSE [menu |-> menu, items |-> h.items \o pushed, columns |-> columns,
              selected |-> item_count, top |-> 0,
              dirty |-> d.dirty, pal |-> d.pal,
              ops |-> h.ops \o << <<"newpad", "menu">> >> \o d.ops]

\* a menu_select that took the item count itself for an index
menu_select_past_end(selected) ==
    LET d == draw_menu(palette, m_menu, m_menu_fg, m_menu_bg, m_dirty)
    IN  IF selected < 0 \/ selected > Len(m_items)
        THEN [selected |-> -1, top |-> 0, dirty |-> d.dirty, pal |-> d.pal,
              ops |-> d.ops]
        ELSE [selected |-> selected, top |-> m_menu_top_line,
              dirty |-> d.dirty, pal |-> d.pal, ops |-> d.ops]

\* menu_select: what it leaves in the members it writes
menu_select(selected) ==
    LET item_count == Len(m_items)
        menu_lines == div_round_up(item_count, m_menu_columns)
        selected_line == CDiv(selected, m_menu_columns)
        win_height == m_menu.size.line
        top1 == IF selected_line < m_menu_top_line
                THEN selected_line ELSE m_menu_top_line
        top2 == IF selected_line >= top1 + win_height
                THEN Min(selected_line, menu_lines - win_height) ELSE top1
        d    == draw_menu(palette, m_menu, m_menu_fg, m_menu_bg, m_dirty)
    IN  IF selected < 0 \/ selected >= item_count
        THEN [selected |-> -1, top |-> 0, dirty |-> d.dirty, pal |-> d.pal,
              ops |-> d.ops]
        ELSE [selected |-> selected, top |-> top2, dirty |-> d.dirty,
              pal |-> d.pal, ops |-> d.ops]

----------------------------------------------------------------------------
(* The info box.  A text is the sequence of its lines' lengths, each line  *)
(* ending in a newline.                                                    *)

\* the size <<lines, columns>> of the assistant's picture
assistant_size(assistant) ==
    CASE assistant = "clippy" -> Coord(8, 8)
      [] assistant = "cat"    -> Coord(11, 17)
      [] OTHER                -> Coord(0, 0)

\* a word of n code points broken into lines of at most width code points
RECURSIVE break_word(_, _)
break_word(n, width) ==
    IF n <= width THEN <<n>> ELSE <<width>> \o break_word(n - width, width)

\* wrap_lines for a text of one word a line: every word wider than the
\* width is broken, every newline of the text ends a line
RECURSIVE wrap_lines(_, _)
wrap_lines(text, width) ==
    IF text = << >> THEN << >>
    ELSE break_word(Head(text), width) \o wrap_lines(Tail(text), width)

\* compute_needed_size: one line, and one more for every newline but the
\* last; the columns of the longest line
RECURSIVE compute_needed_size_from(_, _)
compute_needed_size_from(text, res) ==
    IF text = << >> THEN res
    ELSE LET col == Max(res.column, Head(text))
         IN  IF Tail(text) = << >> THEN Coord(res.line, col)
             ELSE compute_needed_size_from(Tail(text), Coord(res.line + 1, col))

compute_needed_size(text) == compute_needed_size_from(text, Coord(1, 0))

\* a compute_pos that takes no notice of the rectangle to avoid
compute_pos_no_avoid(anchor, size, scrsize, rect_to_avoid_pos, rect_to_avoid_size, prefer_above0) ==
    LET above == Coord(anchor.line - size.line, anchor.column)
        prefer_above == prefer_above0 /\ ~(above.line < 0)
        below == Coord(anchor.line + 1, anchor.column)
        pos1  == IF prefer_above THEN above
                 ELSE IF below.line + size.line >= scrsize.line
                 THEN Coord(Max(0, anchor.line - size.line), below.column)
                 ELSE below
    IN  IF pos1.column + size.column >= scrsize.column
        THEN Coord(pos1.line, Max(0, scrsize.column - size.column))
        ELSE pos1

\* compute_pos
compute_pos(anchor, size, scrsize, rect_to_avoid_pos, rect_to_avoid_size, prefer_above0) ==
    LET above == Coord(anchor.line - size.line, anchor.column)
        prefer_above == prefer_above0 /\ ~(above.line < 0)
        below == Coord(anchor.line + 1, anchor.column)
        pos1  == IF prefer_above THEN above
                 ELSE IF below.line + size.line >= scrsize.line
                 THEN Coord(Max(0, anchor.line - size.line), below.column)
                 ELSE below
        pos2  == IF pos1.column + size.column >= scrsize.column
                 THEN Coord(pos1.line, Max(0, scrsize.column - size.column))
                 ELSE pos1
        rectbeg == rect_to_avoid_pos
        rectend == Coord(rectbeg.line + rect_to_avoid_size.line,
                         rectbeg.column + rect_to_avoid_size.column)
        end   == Coord(pos2.line + size.line, pos2.column + size.column)
        line3 == Min(rectbeg.line, anchor.line) - size.line
    IN  IF rect_to_avoid_size # Zero
           /\ ~(end.line < rectbeg.line \/ end.column < rectbeg.column
                \/ pos2.line > rectend.line \/ pos2.column > rectend.column)
        THEN Coord(IF line3 < 0 THEN Max(rectend.line, anchor.line) ELSE line3,
                   pos2.column)
        ELSE pos2

\* make_info_box without the test of the bubble's width
make_info_box_no_guard(title, message, max_width, assistant) ==
    LET asize == assistant_size(assistant)
        max_bubble_width == max_width - asize.column - 6
        lines == wrap_lines(message, Max(1, max_bubble_width))
        bubble_width == Max(title + 2, MaxOfSeq(lines))
        line_count == Max(asize.line - 1, Len(lines) + 2)
    IN  [i \in 1 .. line_count |->
            asize.column
            + (IF i - 1 <= Len(lines) + 1 THEN bubble_width + 4 ELSE 0)]

\* make_info_box: the lines of the box, empty when the bubble would be
\* narrower than 4
make_info_box(title, message, max_width, assistant) ==
    LET asize == assistant_size(assistant)
        max_bubble_width == max_width - asize.column - 6
        lines == wrap_lines(message, max_bubble_width)
        bubble_width == Max(title + 2, MaxOfSeq(lines))
        line_count == Max(asize.line - 1, Len(lines) + 2)
    IN  IF max_bubble_width < 4 THEN << >>
        ELSE [i \in 1 .. line_count |->
                asize.column
                + (IF i - 1 <= Len(lines) + 1 THEN bubble_width + 4 ELSE 0)]

\* info_hide: what it leaves in the members it writes
info_hide ==
    IF ~m_info.win
    THEN [info |-> m_info, dirty |-> m_dirty, ops |-> << >>]
    ELSE [info |-> Window_destroy(m_info), dirty |-> TRUE,
          ops |-> << <<"wredrawln", "main">>, <<"delwin", "info">> >>]

\* info_show: what it leaves in the members it writes; title is the title's
\* length, ok the outcome of the pad's allocation
info_show(title, content, anchor0, face, style, ok) ==
    LET h       == info_hide
        prompt  == style = "Prompt"
        menudoc == style = "MenuDoc" /\ m_menu.win
        anchor  == IF prompt
                   THEN Coord(IF m_status_on_top THEN 0 ELSE m_dimensions.line,
                              m_dimensions.column - 1)
                   ELSE IF m_status_on_top
                   THEN Coord(anchor0.line + 1, anchor0.column)
                   ELSE anchor0
        col     == IF menudoc THEN m_menu.pos.column + m_menu.size.column
                   ELSE anchor.column
        max_width == m_dimensions.column - col
        info_box == IF prompt
                    THEN make_info_box(title, content, m_dimensions.column,
                                       m_assistant)
                    ELSE wrap_lines(content, max_width)
        size    == compute_needed_size(info_box)
        pos     == IF menudoc
                   THEN Coord(m_menu.pos.line,
                              m_menu.pos.column + m_menu.size.column)
                   ELSE compute_pos(anchor, size, m_dimensions, m_menu.pos,
                                    m_menu.size, style = "InlineAbove")
        hidden  == [info |-> h.info, dirty |-> h.dirty, pal |-> palette,
                    ops |-> h.ops]
    IN  IF ~prompt /\ max_width < 4 THEN hidden
        ELSE IF pos.line + size.line > m_dimensions.line THEN hidden
        ELSE [info |-> Window_create(pos, size, ok), dirty |-> TRUE,
              pal |-> get_color_pair(palette, face).pal,
              ops |-> h.ops \o << <<"newpad", "info">>, <<"draw", "info">> >>]

----------------------------------------------------------------------------
(* The operations of NCursesUI, the terminal and the signal handler.       *)

DefaultFace == Face(NamedColor("Default"), NamedColor("Default"))

\* the most resize keys left unread when the terminal is resized again
MaxUngot == 2

\* the place of the last call e among the calls, 0 when it is not there
LastCall(calls, e) ==
    LET at == {i \in 1 .. Len(calls) : calls[i] = e}
    IN  IF at = {} THEN 0 ELSE CHOOSE i \in at : \A j \in at : j <= i

\* curses' clearok flag of curscr after the calls: clearok(curscr, true)
\* sets it, the doupdate that repaints the terminal clears it
repaint_after(calls) ==
    LET set   == LastCall(calls, <<"clearok", "curscr">>)
        clear == LastCall(calls, <<"doupdate", "screen">>)
    IN  IF set = 0 /\ clear = 0 THEN curscr_clear ELSE set > clear

\* the operation just run: its name, its arguments and its curses calls;
\* what only get_key gives is cleared
Called(name, a, calls) ==
    /\ op' = name /\ args' = a /\ ops' = calls /\ pulled' = << >> /\ key' = NoKey
    /\ curscr_clear' = repaint_after(calls)
    /\ UNCHANGED stepVars

\* the same for an operation without arguments
Ran(name, calls) == Called(name, << >>, calls)

\* the members check_resize writes, as the record cr holds them
Resized(cr) ==
    /\ m_window' = cr.window
    /\ m_info' = cr.info
    /\ m_menu' = cr.menu
    /\ m_dimensions' = cr.dimensions
    /\ resize_pending' = cr.resize_pending

\* the terminal gets another size; the kernel queues a SIGWINCH
TermResized(g) ==
    /\ g # term
    /\ Len(ungot) < MaxUngot
    /\ term' = g
    /\ sigwinch' = TRUE
    /\ Ran("term_resized", << >>)
    /\ UNCHANGED <<paletteVars, resize_pending, uiVars, inputVars>>

\* a handler that queried the geometry and rebuilt the surfaces itself
on_term_resize_rebuilds ==
    LET cr == check_resize(TRUE, TRUE)
    IN  /\ sigwinch
        /\ sigwinch' = FALSE
        /\ Resized(cr)
        /\ ungot' = cr.ungot
        /\ Ran("on_term_resize", cr.ops)
        /\ UNCHANGED <<paletteVars, term, m_items, m_menu_columns,
                       m_menu_top_line, m_selected_item, m_menu_fg, m_menu_bg,
                       m_dirty, m_status_on_top, m_assistant, tty, timeout>>

\* on_term_resize, the handler of SIGWINCH
on_term_resize ==
    /\ sigwinch
    /\ sigwinch' = FALSE
    /\ resize_pending' = 1
    /\ Ran("on_term_resize", << <<"force_signal", "EventManager">> >>)
    /\ UNCHANGED <<paletteVars, term, uiVars, inputVars>>

\* a unit arrives on the terminal
TtyInput(u, MaxPending) ==
    /\ Len(tty) < MaxPending
    /\ tty' = Append(tty, u)
    /\ Ran("tty_input", << >>)
    /\ UNCHANGED <<paletteVars, termVars, uiVars, ungot, timeout>>

\* NCursesUI::draw, of a display buffer without lines
draw(ok) ==
    LET P1 == get_color_pair(palette, DefaultFace).pal
        cr == check_resize(FALSE, ok)
        P2 == set_face(P1, Face(NamedColor("Blue"), NamedColor("Default")),
                       DefaultFace)
    IN  /\ palette' = P2
        /\ Resized(cr)
        /\ ungot' = cr.ungot
        /\ m_dirty' = TRUE
        /\ Ran("draw", cr.ops)
        /\ UNCHANGED <<can_change_color, COLORS, pair_log, nc_in, nc_ret,
                       term, sigwinch, m_items, m_menu_columns,
                       m_menu_top_line, m_selected_item, m_menu_fg, m_menu_bg,
                       m_status_on_top, m_assistant, tty, timeout>>

\* NCursesUI::draw_status, of a status line and a mode line without atoms
draw_status ==
    /\ palette' = get_color_pair(palette, DefaultFace).pal
    /\ m_dirty' = TRUE
    /\ Ran("draw_status", << <<"write", "title">> >>)
    /\ UNCHANGED <<can_change_color, COLORS, pair_log, nc_in, nc_ret, termVars,
                   m_window, m_dimensions, m_menu, m_info, m_items,
                   m_menu_columns, m_menu_top_line, m_selected_item, m_menu_fg,
                   m_menu_bg, m_status_on_top, m_assistant, inputVars>>

\* NCursesUI::refresh
refresh ==
    /\ m_dirty' = FALSE
    /\ Ran("refresh", IF m_dirty THEN redraw(m_menu, m_info) ELSE << >>)
    /\ UNCHANGED <<paletteVars, termVars, m_window, m_dimensions, m_menu,
                   m_info, m_items, m_menu_columns, m_menu_top_line,
                   m_selected_item, m_menu_fg, m_menu_bg, m_status_on_top,
                   m_assistant, inputVars>>

\* NCursesUI::is_key_available
is_key_available(ok) ==
    LET cr == check_resize(FALSE, ok)
        r  == wgetch([ungot |-> cr.ungot, tty |-> tty], 0, cr.window.win)
        S  == IF r.c # ERR THEN ungetch(r.src, r.c) ELSE r.src
    IN  /\ Resized(cr)
        /\ ungot' = S.ungot
        /\ tty' = S.tty
        /\ timeout' = -1
        /\ Ran("is_key_available",
               cr.ops \o << <<"return", IF r.c # ERR THEN "true" ELSE "false">> >>)
        /\ UNCHANGED <<paletteVars, term, sigwinch, m_items, m_menu_columns,
                       m_menu_top_line, m_selected_item, m_menu_fg, m_menu_bg,
                       m_dirty, m_status_on_top, m_assistant>>

\* the events getmouse may give: none, or one with a button state
MouseEvents ==
    { [ok |-> FALSE, y |-> 0, x |-> 0, bstate |-> {}] } \cup
    { [ok |-> TRUE, y |-> 1, x |-> 2, bstate |-> b] :
        b \in { {<<1, "press">>}, {<<1, "release">>}, {<<2, "press">>},
                {<<4, "press">>}, {<<3, "press">>}, {} } }

\* NCursesUI::get_key; it waits while wgetch would
GetKey(ok, ev) ==
    LET cr == check_resize(FALSE, ok)
        r  == get_key(cr, [ungot |-> cr.ungot, tty |-> tty], timeout, ev)
    IN  /\ ~r.blocked
        /\ Resized(cr)
        /\ ungot' = r.src.ungot
        /\ tty' = r.src.tty
        /\ timeout' = r.timeout
        /\ op' = "get_key"
        /\ args' = << >>
        /\ ops' = r.ops
        /\ curscr_clear' = repaint_after(r.ops)
        /\ pulled' = r.pulled
        /\ key' = r.key
        /\ UNCHANGED <<paletteVars, term, sigwinch, m_items, m_menu_columns,
                       m_menu_top_line, m_selected_item, m_menu_fg, m_menu_bg,
                       m_dirty, m_status_on_top, m_assistant, stepVars>>

\* NCursesUI::menu_show
MenuShow(items, anchor, style, ok, MaxHeld) ==
    LET r == menu_show(items, anchor, DefaultFace, DefaultFace, style, ok)
    IN  /\ Len(r.items) <= MaxHeld
        /\ m_menu' = r.menu
        /\ m_items' = r.items
        /\ m_menu_columns' = r.columns
        /\ m_selected_item' = r.selected
        /\ m_menu_top_line' = r.top
        /\ m_menu_fg' = DefaultFace
        /\ m_menu_bg' = DefaultFace
        /\ m_dirty' = r.dirty
        /\ palette' = r.pal
        /\ Called("menu_show", <<items, anchor, style>>, r.ops)
        /\ UNCHANGED <<can_change_color, COLORS, pair_log, nc_in, nc_ret,
                       termVars, m_window, m_dimensions, m_info,
                       m_status_on_top, m_assistant, inputVars>>

\* NCursesUI::menu_select
MenuSelect(selected) ==
    LET r == menu_select(selected)
    IN  /\ m_selected_item' = r.selected
        /\ m_menu_top_line' = r.top
        /\ m_dirty' = r.dirty
        /\ palette' = r.pal
        /\ Called("menu_select", <<selected>>, r.ops)
        /\ UNCHANGED <<can_change_color, COLORS, pair_log, nc_in, nc_ret,
                       termVars, m_window, m_dimensions, m_menu, m_info,
                       m_items, m_menu_columns, m_menu_fg, m_menu_bg,
                       m_status_on_top, m_assistant, inputVars>>

\* NCursesUI::menu_hide
MenuHide ==
    LET r == menu_hide
    IN  /\ m_menu' = r.menu
        /\ m_items' = r.items
        /\ m_dirty' = r.dirty
        /\ Ran("menu_hide", r.ops)
        /\ UNCHANGED <<paletteVars, termVars, m_window, m_dimensions, m_info,
                       m_menu_columns, m_menu_top_line, m_selected_item,
                       m_menu_fg, m_menu_bg, m_status_on_top, m_assistant,
                       inputVars>>

\* NCursesUI::info_show
InfoShow(title, content, anchor, style, ok) ==
    LET r == info_show(title, content, anchor, DefaultFace, style, ok)
    IN  /\ m_info' = r.info
        /\ m_dirty' = r.dirty
        /\ palette' = r.pal
        /\ Called("info_show", <<title, content, anchor, style>>, r.ops)
        /\ UNCHANGED <<can_change_color, COLORS, pair_log, nc_in, nc_ret,
                       termVars, m_window, m_dimensions, m_menu, m_items,
                       m_menu_columns, m_menu_top_line, m_selected_item,
                       m_menu_fg, m_menu_bg, m_status_on_top, m_assistant,
                       inputVars>>

\* NCursesUI::info_hide
InfoHide ==
    LET r == info_hide
    IN  /\ m_info' = r.info
        /\ m_dirty' = r.dirty
        /\ Ran("info_hide", r.ops)
        /\ UNCHANGED <<paletteVars, termVars, m_window, m_dimensions, m_menu,
                       m_items, m_menu_columns, m_menu_top_line,
                       m_selected_item, m_menu_fg, m_menu_bg, m_status_on_top,
                       m_assistant, inputVars>>

\* NCursesUI::set_ui_options, for the options read by the layout
SetUiOptions(status_on_top, assistant) ==
    /\ m_status_on_top' = status_on_top
    /\ m_assistant' = assistant
    /\ Called("set_ui_options", <<status_on_top, assistant>>, << >>)
    /\ UNCHANGED <<paletteVars, termVars, m_window, m_dimensions, m_menu,
                   m_info, m_items, m_menu_columns, m_menu_top_line,
                   m_selected_item, m_menu_fg, m_menu_bg, m_dirty, inputVars>>

\* get_color_pair called from outside, its pair and id logged
GetColorPair(face, MaxCalls) ==
    LET r == get_color_pair(palette, face)
    IN  /\ Len(pair_log) < MaxCalls
        /\ palette' = r.pal
        /\ pair_log' = Append(pair_log, [pair |-> <<face.fg, face.bg>>,
                                          id |-> r.id])
        /\ UNCHANGED <<can_change_color, COLORS, nc_in, nc_ret, termVars,
                       uiVars, inputVars, lastVars, stepVars,
                       curscr_clear>>

\* nc_color called for the colour of entry nc_in of the reference palette
NcColor ==
    LET e == builtin_colors[nc_in + 1]
    IN  /\ nc_ret = -2
        /\ nc_ret' = nc_color(palette, RGB(e[1], e[2], e[3])).ret
        /\ palette' = nc_color(palette, RGB(e[1], e[2], e[3])).pal
        /\ UNCHANGED <<can_change_color, COLORS, pair_log, nc_in, termVars,
                       uiVars, inputVars, lastVars, stepVars,
                       curscr_clear>>


----------------------------------------------------------------------------
(* check_resize() statement by statement, so that on_term_resize can run   *)
(* between any two of its statements.                                      *)

\* a statement of check_resize has run, with the curses calls it made
Stepped(calls) ==
    /\ op' = "check_resize" /\ args' = << >> /\ ops' = calls
    /\ pulled' = << >> /\ key' = NoKey
    /\ curscr_clear' = repaint_after(calls)

\* if (not force and not resize_pending) return;
check_resize_test ==
    /\ cr_pc = "idle"
    /\ cr_pc' = IF resize_pending = 0 THEN "idle" ELSE "clear"
    /\ Stepped(<< >>)
    /\ UNCHANGED <<paletteVars, termVars, uiVars, inputVars, ws>>

\* resize_pending = 0;
check_resize_clear ==
    /\ cr_pc = "clear"
    /\ resize_pending' = 0
    /\ cr_pc' = "query"
    /\ Stepped(<< >>)
    /\ UNCHANGED <<paletteVars, term, sigwinch, uiVars, inputVars, ws>>

\* ioctl(fd, TIOCGWINSZ, &ws)
check_resize_query ==
    /\ cr_pc = "query"
    /\ ws' = term
    /\ cr_pc' = "rebuild"
    /\ Stepped(<< <<"ioctl", "TIOCGWINSZ">> >>)
    /\ UNCHANGED <<paletteVars, termVars, uiVars, inputVars>>

\* a rebuild that cleared resize_pending only now, after the query
check_resize_rebuild_clears ==
    /\ cr_pc = "rebuild"
    /\ resize_pending' = 0
    /\ m_window' = [win |-> newpad(ws[1], ws[2], TRUE),
                    size |-> Coord(ws[1], ws[2])]
    /\ m_info' = IF m_info.win THEN Window_destroy(m_info) ELSE m_info
    /\ m_menu' = IF m_menu.win THEN Window_destroy(m_menu) ELSE m_menu
    /\ m_dimensions' = Coord(ws[1] - 1, ws[2])
    /\ cr_pc' = "unget"
    /\ Stepped(<< <<"resize_term", "screen">>, <<"newpad", "main">> >>)
    /\ UNCHANGED <<paletteVars, term, sigwinch, m_items, m_menu_columns,
                   m_menu_top_line, m_selected_item, m_menu_fg, m_menu_bg,
                   m_dirty, m_status_on_top, m_assistant, inputVars, ws>>

\* the windows destroyed, the terminal resized, the main pad made anew and
\* m_dimensions set, all from ws
check_resize_rebuild ==
    /\ cr_pc = "rebuild"
    /\ m_window' = [win |-> newpad(ws[1], ws[2], TRUE),
                    size |-> Coord(ws[1], ws[2])]
    /\ m_info' = IF m_info.win THEN Window_destroy(m_info) ELSE m_info
    /\ m_menu' = IF m_menu.win THEN Window_destroy(m_menu) ELSE m_menu
    /\ m_dimensions' = Coord(ws[1] - 1, ws[2])
    /\ cr_pc' = "unget"
    /\ Stepped(<< <<"resize_term", "screen">>, <<"newpad", "main">> >>)
    /\ UNCHANGED <<paletteVars, termVars, m_items, m_menu_columns,
                   m_menu_top_line, m_selected_item, m_menu_fg, m_menu_bg,
                   m_dirty, m_status_on_top, m_assistant, inputVars, ws>>

\* ungetch(KEY_RESIZE); clearok(curscr, true); werase(curscr);
check_resize_unget ==
    /\ cr_pc = "unget"
    /\ ungot' = <<KEY_RESIZE>> \o ungot
    /\ cr_pc' = "idle"
    /\ Stepped(<< <<"ungetch", "KEY_RESIZE">>, <<"clearok", "curscr">>,
                  <<"werase", "curscr">> >>)
    /\ UNCHANGED <<paletteVars, termVars, uiVars, tty, timeout, ws>>

\* nc_color called for an RGB colour: the index it returns, and the
\* init_color it made when it programmed a slot
NcColorRGB(color) ==
    LET r == nc_color(palette, color)
    IN  /\ palette' = r.pal
        /\ nc_ret' = r.ret
        /\ Called("nc_color", <<color>>,
                  IF r.pal.hw # palette.hw \/ r.pal.next_color # palette.next_color
                  THEN << <<"init_color", r.ret>> >> ELSE << >>)
        /\ UNCHANGED <<can_change_color, COLORS, pair_log, nc_in, termVars,
                       uiVars, inputVars>>

\* restore_colors, as the destructor calls it
RestoreColors ==
    /\ can_change_color
    /\ op # "restore_colors"
    /\ Called("restore_colors", << >>, restore_colors)
    /\ UNCHANGED <<paletteVars, termVars, uiVars, inputVars>>
----------------------------------------------------------------------------
(* Initial states and specifications.                                      *)

\* the sizes <<rows, columns>> the terminal takes
Geometries == { <<9, 20>>, <<4, 8>>, <<2, 3>> }

\* the size the terminal has when the editor starts
InitGeometry == <<9, 20>>

\* the static colour state and the capabilities before any call
InitPalette(change, ncolors) ==
    /\ can_change_color = change
    /\ COLORS = ncolors
    /\ palette = InitPaletteState
    /\ pair_log = << >>
    /\ nc_in = 0
    /\ nc_ret = -2

\* the state NCursesUI's constructor leaves on a terminal of size g:
\* check_resize(true), then redraw
InitUIAt(g) ==
    /\ term = g
    /\ sigwinch = FALSE
    /\ resize_pending = 0
    /\ m_window = [win |-> TRUE, size |-> Coord(g[1], g[2])]
    /\ m_dimensions = Coord(g[1] - 1, g[2])
    /\ m_menu = NoWindow
    /\ m_info = NoWindow
    /\ m_items = << >>
    /\ m_menu_columns = 1
    /\ m_menu_top_line = 0
    /\ m_selected_item = 0
    /\ m_menu_fg = DefaultFace
    /\ m_menu_bg = DefaultFace
    /\ m_dirty = FALSE
    /\ m_status_on_top = FALSE
    /\ m_assistant = "clippy"
    /\ ungot = <<KEY_RESIZE>>
    /\ timeout = -1
    /\ op = "constructor"
    /\ args = << >>
    /\ ops = << >>
    /\ pulled = << >>
    /\ key = NoKey
    /\ cr_pc = "idle"
    /\ ws = g
    /\ curscr_clear = FALSE

InitUI == InitUIAt(InitGeometry)

(* get_color_pair called for faces over a few colours.                     *)

MaxPairCalls == 3

PairColors ==
    { NamedColor("Default"), NamedColor("Red"), RGB(255, 0, 0), RGB(1, 2, 3) }

PairFaces == { Face(f, b) : f \in PairColors, b \in PairColors }

InitPair ==
    /\ \E change \in BOOLEAN : InitPalette(change, 256)
    /\ InitUI
    /\ tty = << >>

NextPair == \E face \in PairFaces : GetColorPair(face, MaxPairCalls)

SpecPair == InitPair /\ [][NextPair]_vars

(* nc_color called once for the colour of an entry of the reference        *)
(* palette.                                                                *)

InitNearest ==
    /\ can_change_color \in BOOLEAN
    /\ COLORS \in {16, 256}
    /\ palette = InitPaletteState
    /\ pair_log = << >>
    /\ nc_in \in 0 .. 255
    /\ nc_ret = -2
    /\ InitUI
    /\ tty = << >>

NextNearest == NcColor

SpecNearest == InitNearest /\ [][NextNearest]_vars

(* get_key and is_key_available on the units of a short input.             *)

MaxKeyUnits == 3

\* the control units, ESC, [ I O and a letter; NUL, DEL, a continuation byte
\* and a lead byte of UTF-8; the mouse marker, BackTab, F1, F12, and two
\* codes of curses that get_key has no case for
KeyUnits ==
    (1 .. 26) \cup {ESC, 91, 73, 79, 97} \cup {0, DEL, 128, 195}
        \cup {KEY_MOUSE, KEY_BTAB, KEY_F0 + 1, KEY_F0 + 12, KEY_F0 + 13, 400}

RECURSIVE SeqsUpTo(_, _)
SeqsUpTo(S, n) ==
    IF n = 0 THEN { << >> }
    ELSE LET shorter == SeqsUpTo(S, n - 1)
         IN  shorter \cup { Append(s, u) : s \in {t \in shorter : Len(t) = n - 1},
                                           u \in S }

\* the units taken after the first two: I, O, a letter and a control unit
TailUnits == {73, 79, 97, 2}

\* the inputs: any two units, then units of TailUnits
KeyInputs ==
    { h \o t : h \in SeqsUpTo(KeyUnits, 2),
               t \in SeqsUpTo(TailUnits, MaxKeyUnits - 2) }

NoMouseEvent == [ok |-> FALSE, y |-> 0, x |-> 0, bstate |-> {}]

InitKey ==
    /\ InitPalette(FALSE, 256)
    /\ InitUI
    /\ tty \in KeyInputs

NextKey ==
    \/ \E ev \in MouseEvents : GetKey(TRUE, ev)
    \/ is_key_available(TRUE)

SpecKey == InitKey /\ [][NextKey]_vars

(* The front end in use: the terminal is resized, units arrive, the view   *)
(* is drawn and refreshed, a menu and an info box are shown and hidden.    *)
(* Every pad of a positive size is allocated.                              *)

MaxTty == 1

UIUnits == {97}

Allocated == {TRUE}

\* allocation may fail
AllocOutcomes == BOOLEAN

OneItemLists == { << <<1>> >> }

\* the most items the user interface holds
MaxItems == 2

MenuStyles == {"Prompt", "Context"}

TopLeft == { Coord(0, 0) }

Anchors == { Coord(0, 0), Coord(2, 5) }

Init ==
    /\ InitPalette(FALSE, 256)
    /\ InitUI
    /\ tty = << >>

\* the sizes the terminal takes while every operation is run
ResizeGeometries == { <<9, 20>>, <<4, 8>> }

Next ==
    \/ \E g \in ResizeGeometries : TermResized(g)
    \/ on_term_resize
    \/ \E u \in UIUnits : TtyInput(u, MaxTty)
    \/ \E ok \in Allocated : draw(ok)
    \/ draw_status
    \/ refresh
    \/ \E ok \in Allocated : is_key_available(ok)
    \/ \E ok \in Allocated : GetKey(ok, NoMouseEvent)
    \/ \E items \in OneItemLists, a \in TopLeft, s \in {"Context"},
          ok \in Allocated : MenuShow(items, a, s, ok, MaxItems)
    \/ MenuHide
    \/ \E c \in {<<3>>}, a \in TopLeft, s \in {"InlineBelow"},
          ok \in Allocated : InfoShow(0, c, a, s, ok)
    \/ InfoHide

Spec == Init /\ [][Next]_vars

(* The menu: shown for several item lists, styles and anchors, scrolled    *)
(* by selecting, on a terminal that is resized, with the status line on    *)
(* either side.                                                            *)

\* no item, one item, and enough items for two columns of more rows than
\* the menu shows
MenuItemLists ==
    { << >>, << <<1>> >>, [i \in 1 .. 21 |-> <<7, 7, 7, 7, 7, 7, 7>>] }

\* the indices menu_select is called with
SelectIndices == {-1, 0, 10, 20, 21}

\* the most items the menu holds
MaxMenuItems == 22

NextMenu ==
    \/ \E g \in Geometries : TermResized(g)
    \/ on_term_resize
    \/ \E ok \in Allocated : draw(ok)
    \/ \E items \in MenuItemLists, a \in Anchors, ok \in Allocated :
           MenuShow(items, a, "Context", ok, MaxMenuItems)
    \/ \E items \in MenuItemLists, a \in TopLeft, ok \in Allocated :
           MenuShow(items, a, "Prompt", ok, MaxMenuItems)
    \/ \E i \in SelectIndices : MenuSelect(i)
    \/ MenuHide
    \/ \E s \in BOOLEAN : SetUiOptions(s, "clippy")

SpecMenu == Init /\ [][NextMenu]_vars

(* The info box: shown for several titles, contents, styles and anchors,    *)
(* with and without a menu, for every assistant, with the status line on   *)
(* either side, on a terminal that is resized.                             *)

InfoStyles == {"Prompt", "MenuDoc", "InlineAbove", "InlineBelow"}

\* no text, lines of 5 and 2, and a line wider than the terminal
InfoContents == { << >>, <<5, 2>>, <<25>> }

\* the lengths of the titles
InfoTitles == {0, 4}

Assistants == {"clippy", "cat", "none"}

\* where the info box is anchored: the top left and near the right edge
InfoAnchors == { Coord(0, 0), Coord(3, 18) }

InitInfo ==
    /\ InitPalette(FALSE, 256)
    /\ \E g \in Geometries : InitUIAt(g)
    /\ tty = << >>

NextInfo ==
    \/ \E items \in OneItemLists, a \in TopLeft, s \in MenuStyles,
          ok \in Allocated : MenuShow(items, a, s, ok, MaxItems)
    \/ MenuHide
    \/ \E t \in InfoTitles, c \in InfoContents, a \in InfoAnchors,
          s \in InfoStyles, ok \in Allocated : InfoShow(t, c, a, s, ok)
    \/ InfoHide
    \/ \E s \in BOOLEAN, a \in Assistants : SetUiOptions(s, a)

SpecInfo == InitInfo /\ [][NextInfo]_vars

(* The surfaces when an allocation may fail.                               *)

NextAlloc ==
    \/ \E g \in Geometries : TermResized(g)
    \/ on_term_resize
    \/ \E ok \in AllocOutcomes : draw(ok)
    \/ refresh
    \/ \E items \in OneItemLists \cup { << >> }, a \in TopLeft,
          s \in MenuStyles, ok \in AllocOutcomes :
              MenuShow(items, a, s, ok, MaxItems)
    \/ MenuHide
    \/ \E c \in {<<3>>}, a \in TopLeft, s \in {"InlineBelow"},
          ok \in AllocOutcomes : InfoShow(0, c, a, s, ok)
    \/ InfoHide

SpecAlloc == Init /\ [][NextAlloc]_vars


(* on_term_resize between the statements of check_resize: the terminal is  *)
(* resized and the signal delivered at any point; between two check_resize *)
(* a menu is shown or hidden and the resize keys are read.                 *)

NextResize ==
    \/ \E g \in Geometries : TermResized(g)
    \/ on_term_resize
    \/ check_resize_test
    \/ check_resize_clear
    \/ check_resize_query
    \/ check_resize_rebuild
    \/ check_resize_unget
    \/ /\ cr_pc = "idle"
       /\ \E items \in OneItemLists, a \in TopLeft :
              MenuShow(items, a, "Context", TRUE, MaxItems)
    \/ cr_pc = "idle" /\ MenuHide
    \/ cr_pc = "idle" /\ resize_pending = 0 /\ GetKey(TRUE, NoMouseEvent)

SpecResize == Init /\ [][NextResize]_vars

(* nc_color called for distinct RGB colours, in any order and again, on    *)
(* terminals whose colours can be redefined and that have a few slots      *)
(* above the sixteen named ones.                                           *)

\* the distinct RGB colours requested
MaxSlotColors == 5

SlotColors == { RGB(n, 0, 0) : n \in 1 .. MaxSlotColors }

\* one, two or four slots above 16
SlotCounts == {17, 18, 20}

InitSlots ==
    /\ \E n \in SlotCounts : InitPalette(TRUE, n)
    /\ InitUI
    /\ tty = << >>

NextSlots == \E c \in SlotColors : NcColorRGB(c)

SpecSlots == InitSlots /\ [][NextSlots]_vars

(* The components init_color is given: nc_color called once for a colour   *)
(* whose components run through 0 .. 255, and restore_colors.              *)

\* the colour whose red component is n, with two other components
ScaleColor(n) == RGB(n, 255 - n, (n * 7) % 256)

InitScale ==
    /\ can_change_color = TRUE
    /\ COLORS = 256
    /\ palette = InitPaletteState
    /\ pair_log = << >>
    /\ nc_in \in 0 .. 255
    /\ nc_ret = -2
    /\ InitUI
    /\ tty = << >>

NextScale ==
    \/ nc_ret = -2 /\ NcColorRGB(ScaleColor(nc_in))
    \/ RestoreColors

SpecScale == InitScale /\ [][NextScale]_vars
----------------------------------------------------------------------------
(* Properties.                                                             *)

\* C1: over any sequence of get_color_pair calls, a call for a pair asked
\* for before returns the id returned the first time, a call for a pair never
\* asked for returns an id greater than every id issued so far, and the
\* first id issued is 1.
C1_PairIdsStable ==
    \A j \in 1 .. Len(pair_log) :
        LET before == { i \in 1 .. j - 1 : pair_log[i].pair = pair_log[j].pair }
        IN  /\ \A i \in before : pair_log[j].id = pair_log[i].id
            /\ before = {} => \A i \in 1 .. j - 1 : pair_log[j].id > pair_log[i].id
            /\ j = 1 => pair_log[j].id = 1

\* a pair, another pair, then the first pair again
C1_Witness ==
    /\ Len(pair_log) = 3
    /\ pair_log[1].pair = pair_log[3].pair
    /\ pair_log[2].pair # pair_log[1].pair
    /\ pair_log[3].id = 1
    /\ pair_log[2].id = 2

\* the next unit wgetch gives is the resize key
ResizeKeyNext == ungot # << >> /\ Head(ungot) = KEY_RESIZE

\* the operations that begin with check_resize()
CallsCheckResize(name) == name \in {"draw", "is_key_available", "get_key"}

\* C2: once on_term_resize has set resize_pending, the next check_resize
\* sets m_dimensions to (rows - 1, columns) of the size the terminal reports
\* and leaves the resize key as the next unit; every operation other than
\* get_key keeps it the next unit and, unless it resizes again, keeps the
\* dimensions; the next get_key returns a Resize key carrying the dimensions.
C2_ResizeThenKey ==
    [][ /\ (CallsCheckResize(op') /\ resize_pending = 1)
            => /\ m_dimensions' = Coord(term[1] - 1, term[2])
               /\ resize_pending' = 0
        /\ (op' \in {"draw", "is_key_available"} /\ resize_pending = 1)
            => ResizeKeyNext'
        /\ (op' # "get_key" /\ ResizeKeyNext)
            => /\ ResizeKeyNext'
               /\ (~CallsCheckResize(op') \/ resize_pending = 0)
                      => m_dimensions' = m_dimensions
        /\ (op' = "get_key" /\ (resize_pending = 1 \/ ResizeKeyNext))
            => /\ key' = Key("resize", 0, "Resize", m_dimensions')
               /\ resize_pending = 0 => m_dimensions' = m_dimensions
      ]_vars

\* get_key has returned the Resize key of a terminal that shrank to 4 x 8
C2_Witness ==
    /\ op = "get_key"
    /\ term = <<4, 8>>
    /\ key = Key("resize", 0, "Resize", Coord(3, 8))
    /\ m_dimensions = Coord(3, 8)

\* the units get_key's reads are given, in order, when no resize is pending
Avail == ungot \o tty

\* C3: get_key reading ESC returns Escape when no unit follows, FocusIn
\* when [ I follows, FocusOut when [ O follows, else control-alt of the
\* letter when the unit after ESC is in 1 .. 26 and alt of that unit when it
\* is any other.
C3_EscapeDecoding ==
    [][ (op' = "get_key" /\ resize_pending = 0 /\ Avail # << >>
                         /\ Head(Avail) = 27)
            => LET rest == Tail(Avail)
               IN  key' = IF rest = << >> THEN Named("Escape")
                          ELSE IF Len(rest) >= 2 /\ rest[1] = 91 /\ rest[2] = 73
                          THEN Named("FocusIn")
                          ELSE IF Len(rest) >= 2 /\ rest[1] = 91 /\ rest[2] = 79
                          THEN Named("FocusOut")
                          ELSE IF rest[1] \in 1 .. 26
                          THEN Key("ctrlalt", rest[1] + 96, "", Zero)
                          ELSE Key("alt", rest[1], "", Zero)
      ]_vars

\* get_key has read ESC and control-B and returned control-alt-b
C3_Witness ==
    /\ op = "get_key"
    /\ pulled = <<27, 2>>
    /\ key = Key("ctrlalt", 98, "", Zero)

\* C4: get_key reading a unit c in 1 .. 26 returns control of the letter
\* c - 1 + 'a', except for control-Z (26), where it raises SIGTSTP and
\* returns Invalid; it repaints for control-L (12) and for no other unit, and
\* raises the signal for no other unit.
C4_ControlKeys ==
    [][ (op' = "get_key" /\ resize_pending = 0 /\ Avail # << >>
                         /\ Head(Avail) \in 1 .. 26)
            => LET c == Head(Avail)
                   calls == { ops'[i] : i \in 1 .. Len(ops') }
               IN  /\ key' = IF c = 26 THEN Named("Invalid")
                             ELSE Key("ctrl", c + 96, "", Zero)
                   /\ <<"raise", "SIGTSTP">> \in calls <=> c = 26
                   /\ <<"doupdate", "screen">> \in calls <=> c = 12
                   /\ <<"redrawwin", "main">> \in calls <=> c = 12
      ]_vars

\* get_key has read control-L, repainted and returned control-l
C4_Witness ==
    /\ op = "get_key"
    /\ pulled = <<12>>
    /\ key = Key("ctrl", 108, "", Zero)
    /\ ops = << <<"redrawwin", "main">>, <<"pnoutrefresh", "main">>,
                <<"doupdate", "screen">> >>

\* C5: the menu window exists exactly when the user interface holds items of
\* a menu shown and not hidden, whatever menu_show, menu_hide, info_show,
\* info_hide, draw and check_resize have done.
C5_SurfaceIffShown == m_menu.win <=> m_items # << >>

\* the rows of a menu of n items in the given number of columns
MenuRows(n, columns) == (n + columns - 1) \div columns

\* C6: while a menu is shown, with h its height and R the rows its items
\* take, 0 <= m_menu_top_line <= R - h, and after menu_select of a valid
\* index the row of the selected item is in m_menu_top_line ..
\* m_menu_top_line + h - 1.
C6_TopLineClamped ==
    m_menu.win =>
        LET h == m_menu.size.line
            R == MenuRows(Len(m_items), m_menu_columns)
        IN  /\ 0 <= m_menu_top_line
            /\ m_menu_top_line <= R - h
            /\ (op = "menu_select" /\ m_selected_item >= 0)
                   => LET row == m_selected_item \div m_menu_columns
                      IN  m_menu_top_line <= row /\ row < m_menu_top_line + h

\* the entries of the reference palette with the colour of entry i
SameColour(i) == { j \in 0 .. 255 : builtin_colors[j + 1] = builtin_colors[i + 1] }

\* nc_color takes the nearest-match branch over all 256 entries
NearestMode == ~can_change_color /\ COLORS = 256

\* C7, amended: in nearest-match mode over all 256 entries, nc_color of the
\* colour of entry i returns the least index whose entry has that colour.
C7_ReturnsFirstEqual ==
    (NearestMode /\ nc_ret # -2)
        => /\ nc_ret \in SameColour(nc_in)
           /\ \A j \in SameColour(nc_in) : nc_ret <= j

\* entry 16 has the colour of entry 0, and nc_color returned 0
C7_Witness == NearestMode /\ nc_in = 16 /\ nc_ret = 0

\* C7, as stated: nc_color of the colour of entry i returns i.
C7_ReturnsOwnIndex == (NearestMode /\ nc_ret # -2) => nc_ret = nc_in

\* where the call named x stands in a sequence of calls, 0 if nowhere
Position(calls, x) ==
    IF \E i \in 1 .. Len(calls) : calls[i] = x
    THEN CHOOSE i \in 1 .. Len(calls) :
             calls[i] = x /\ \A j \in 1 .. i - 1 : calls[j] # x
    ELSE 0

\* how often the call named x stands in a sequence of calls
Times(calls, x) == Cardinality({ i \in 1 .. Len(calls) : calls[i] = x })

\* C8: refresh with m_dirty set composites the main window first, then the
\* menu if there is one, then the info box if there is one, each once, and
\* then commits once with doupdate; with m_dirty clear it makes no call; it
\* leaves m_dirty false.
C8_RefreshOrder ==
    [][ op' = "refresh"
            => LET main == Position(ops', <<"pnoutrefresh", "main">>)
                   menu == Position(ops', <<"pnoutrefresh", "menu">>)
                   info == Position(ops', <<"pnoutrefresh", "info">>)
                   done == Position(ops', <<"doupdate", "screen">>)
               IN  /\ ~m_dirty'
                   /\ ~m_dirty => ops' = << >>
                   /\ m_dirty
                        => /\ main = 1
                           /\ done = Len(ops')
                           /\ (menu > 0) <=> m_menu.win
                           /\ (info > 0) <=> m_info.win
                           /\ menu > 0 => main < menu
                           /\ info > 0 => main < info
                           /\ (menu > 0 /\ info > 0) => menu < info
                           /\ \A w \in {"main", "menu", "info"} :
                                  Times(ops', <<"pnoutrefresh", w>>) <= 1
                           /\ Times(ops', <<"doupdate", "screen">>) = 1
      ]_vars

\* refresh has composited the main window, the menu and the info box and
\* committed
C8_Witness ==
    /\ op = "refresh"
    /\ ~m_dirty
    /\ m_menu.win /\ m_info.win
    /\ Position(ops, <<"pnoutrefresh", "menu">>) > 1
    /\ Position(ops, <<"pnoutrefresh", "info">>)
           > Position(ops, <<"pnoutrefresh", "menu">>)
    /\ ops[Len(ops)] = <<"doupdate", "screen">>

\* C9: a window that Window::create was called for has at least one line
\* and one column.
C9_SurfaceAtLeastOneCell ==
    /\ m_window.size.line >= 1 /\ m_window.size.column >= 1
    /\ m_menu # NoWindow => m_menu.size.line >= 1 /\ m_menu.size.column >= 1
    /\ m_info # NoWindow => m_info.size.line >= 1 /\ m_info.size.column >= 1

\* C10: no operation returns leaving a window with the size of a created
\* one and no pad behind it.
C10_NoSurfaceWithoutPad ==
    /\ m_window.win
    /\ m_menu # NoWindow => m_menu.win
    /\ m_info # NoWindow => m_info.win

\* the codes the switch of get_key has a case for, and those of F1 .. F12
NamedCodes ==
    {263, 127, 330, 259, 258, 260, 261, 339, 338, 262, 360, 353, 410}
        \cup (265 .. 276)

\* C11: get_key returns Invalid when the unit it read is the mouse marker
\* and getmouse gives no event, ERR, or a code from 256 on that is neither a
\* named key nor F1 .. F12, and also for control-Z; for every other unit it
\* returns a key that is not Invalid.
C11_InvalidIffUnrecognised ==
    op = "get_key" =>
        LET c == pulled[1]
        IN  key = Named("Invalid")
                <=> \/ c = 409 /\ <<"getmouse", "ERR">> \in { ops[i] : i \in 1 .. Len(ops) }
                    \/ c = -1
                    \/ c >= 256 /\ c # 409 /\ c \notin NamedCodes
                    \/ c = 26

\* get_key has read the mouse marker, got no event and returned Invalid
C11_Witness ==
    /\ op = "get_key"
    /\ pulled = <<409>>
    /\ ops = << <<"getmouse", "ERR">> >>
    /\ key = Named("Invalid")

\* the screen row of the status line
StatusRow == IF m_status_on_top THEN 0 ELSE m_dimensions.line

\* C12: an info box that info_show has created does not lie over the row of
\* the status line, be that row the last one or, with the status line on
\* top, row 0.
C12_InfoOffStatusLine ==
    (op = "info_show" /\ m_info.win)
        => ~(m_info.pos.line <= StatusRow
             /\ StatusRow < m_info.pos.line + m_info.size.line)

\* the columns of the assistant's picture
AssistantWidth ==
    CASE m_assistant = "clippy" -> 8
      [] m_assistant = "cat" -> 17
      [] OTHER -> 0

KeyToCome ==
    LET cr == check_resize(FALSE, TRUE)
        r  == get_key(cr, [ungot |-> cr.ungot, tty |-> tty], timeout,
                      NoMouseEvent)
    IN  [key |-> r.key, waits |-> r.blocked,
         left |-> IF r.blocked THEN Avail ELSE r.src.ungot \o r.src.tty,
         timeout |-> r.timeout]

\* C14: is_key_available takes no unit from the input (it only puts the
\* resize key of its own check_resize in front), returns true exactly when a
\* unit is there to read, and leaves what the following get_key calls
\* return as it was.
C14_ProbeConsumesNothing ==
    [][ op' = "is_key_available"
            => /\ Avail' = (IF resize_pending = 1 THEN <<KEY_RESIZE>> ELSE << >>)
                               \o Avail
               /\ ops'[Len(ops')] = <<"return", "true">> <=> Avail' # << >>
               /\ KeyToCome' = KeyToCome
      ]_vars

\* C18: when get_key returns, whatever key it decoded, the main window is
\* back in blocking mode.
C18_BlockingAfterGetKey == op = "get_key" => timeout = -1

\* C15: on_term_resize sets resize_pending and wakes the event manager and
\* changes nothing else: the windows, the dimensions, the units pushed back
\* or pending and the dirty flag stay as they were; the main window and the
\* dimensions change only in an operation that runs check_resize with
\* resize_pending set.
C15_HandlerSetsOnlyFlag ==
    [][ /\ op' = "on_term_resize"
            => /\ resize_pending' = 1
               /\ ops' = << <<"force_signal", "EventManager">> >>
               /\ UNCHANGED <<uiVars, inputVars, term>>
        /\ (m_dimensions' # m_dimensions \/ m_window' # m_window)
            => CallsCheckResize(op') /\ resize_pending = 1
      ]_vars

\* the handler has run while a menu was shown and a resize key was still
\* unread, after the terminal took another size
C15_Witness ==
    /\ op = "on_term_resize"
    /\ resize_pending = 1
    /\ m_menu.win
    /\ ResizeKeyNext
    /\ m_dimensions # Coord(term[1] - 1, term[2])

\* C16 as the specification states it: while a menu is shown, after menu_show
\* and after menu_select, m_selected_item is -1 or an index of m_items; a
\* menu_select with an index out of range sets it to -1 and the top row to 0.
C16_SelectedNoneOrValid ==
    /\ (m_menu.win /\ op \in {"menu_show", "menu_select"})
        => m_selected_item = -1 \/ m_selected_item \in 0 .. Len(m_items) - 1
    /\ (op = "menu_select" /\ (args[1] < 0 \/ args[1] >= Len(m_items)))
        => m_selected_item = -1 /\ m_menu_top_line = 0

\* C16: while a menu is shown m_selected_item is -1, an index of m_items, or
\* the count one past the last index; a menu_show that creates the menu
\* leaves it at the number of items it was passed, with the top row 0; after
\* menu_select it is -1 or an index of m_items: the index passed when that is
\* in range, -1 with the top row 0 when it is not.
C16_SelectedNoneValidOrCount ==
    /\ m_menu.win => m_selected_item \in -1 .. Len(m_items)
    /\ (op = "menu_show" /\ m_menu.win)
        => m_selected_item = Len(args[1]) /\ m_menu_top_line = 0
    /\ op = "menu_select"
        => /\ m_selected_item = -1 \/ m_selected_item \in 0 .. Len(m_items) - 1
           /\ (args[1] < 0 \/ args[1] >= Len(m_items))
                  => m_selected_item = -1 /\ m_menu_top_line = 0
           /\ args[1] \in 0 .. Len(m_items) - 1 => m_selected_item = args[1]

\* menu_select was called with the item count of a shown menu of 21 items
\* and cleared the selection
C16_Witness ==
    /\ op = "menu_select"
    /\ m_menu.win
    /\ Len(m_items) = 21
    /\ args = <<21>>
    /\ m_selected_item = -1
    /\ m_menu_top_line = 0

\* the items of the last menu_show as it stores them: each cut to the
\* columns right of the anchor less two, at most MaxItemLen
PassedItems ==
    LET items  == args[1]
        column == IF args[3] = "Prompt" THEN 0 ELSE args[2].column
        maxlen == Min(m_dimensions.column - column - 2, MaxItemLen)
    IN  [i \in 1 .. Len(items) |-> substr(items[i], maxlen)]

\* C17: a menu_show that creates the menu leaves in m_items exactly the
\* items it was passed, each truncated, in their order.
C17_ItemsAreThosePassed ==
    (op = "menu_show" /\ m_menu.win) => m_items = PassedItems

\* the dimensions of the size the terminal has now
CurrentDimensions == Coord(term[1] - 1, term[2])

\* C19: no notification is lost, wherever on_term_resize runs between the
\* statements of check_resize.  When every SIGWINCH has been delivered: with
\* no check_resize under way, one more check_resize() leaves the current
\* dimensions (they are current already unless resize_pending is set); a
\* check_resize under way with resize_pending clear has not yet asked for
\* the size, or holds the current one in ws, or has set the current
\* dimensions.
C19_NoResizeLost ==
    ~sigwinch =>
        /\ cr_pc = "idle"
            => /\ check_resize(FALSE, TRUE).dimensions = CurrentDimensions
               /\ resize_pending = 0 => m_dimensions = CurrentDimensions
        /\ (cr_pc = "rebuild" /\ resize_pending = 0) => ws = term
        /\ (cr_pc = "unget" /\ resize_pending = 0)
            => m_dimensions = CurrentDimensions

\* on_term_resize ran after check_resize asked for the size and before it
\* rebuilt: ws is the old size and resize_pending is set again
C19_Witness ==
    /\ cr_pc = "rebuild"
    /\ ws # term
    /\ ~sigwinch
    /\ resize_pending = 1
    /\ op = "on_term_resize"

\* C20: on a terminal whose colours can be redefined and with COLORS > 16,
\* the slot nc_color programs for the n-th distinct RGB colour is in
\* 16 .. COLORS - 1 and is the n-th of the cycle 16, 17, .., COLORS - 1, 16, ..
C20_SlotsCycleFrom16 ==
    (op = "nc_color" /\ ops # << >> /\ can_change_color /\ COLORS > 16) =>
        LET n == Cardinality(DOMAIN palette.colors)
        IN  /\ nc_ret \in 16 .. COLORS - 1
            /\ nc_ret = 16 + ((n - 1) % (COLORS - 16))
            /\ DOMAIN palette.hw \subseteq 16 .. COLORS - 1

\* C21: every RGB colour the map of nc_color holds is the colour its slot
\* is programmed with, so that a repeated request never returns a slot that
\* now shows another colour.
C21_CachedSlotHoldsColor ==
    (can_change_color /\ COLORS > 16) =>
        \A c \in DOMAIN palette.colors :
            /\ palette.colors[c] \in DOMAIN palette.hw
            /\ palette.hw[palette.colors[c]] = <<scale(c.r), scale(c.g), scale(c.b)>>

\* component * 1000 / 255 rounded to the nearest integer (it is never
\* half-way between two)
Rounded(c) == (2000 * c + 255) \div 510

\* C22: the components nc_color and restore_colors pass to init_color are
\* round(component * 1000 / 255), for every component in 0 .. 255.
C22_ComponentsRounded ==
    /\ (op = "nc_color" /\ ops # << >>)
        => palette.hw[nc_ret] = <<Rounded(args[1].r), Rounded(args[1].g),
                                  Rounded(args[1].b)>>
    /\ op = "restore_colors"
        => \A k \in 1 .. Len(ops) :
               LET c == builtin_colors[ops[k][2] + 1]
               IN  ops[k] = <<"init_color", k + 15, Rounded(c[1]),
                              Rounded(c[2]), Rounded(c[3])>>


\* the columns the last menu_show had right of its anchor
MenuWidthLeft ==
    m_dimensions.column - (IF args[3] = "Prompt" THEN 0 ELSE args[2].column)

\* C23: a menu_show that passes the width guard gives the menu the height
\* min(10, ceil(item_count / columns)), for every item count from 0 on.
C23_HeightIsCeiling ==
    (op = "menu_show" /\ MenuWidthLeft > 2) =>
        /\ m_menu_columns >= 1
        /\ m_menu.size.line
               = Min(MaxMenuHeight, MenuRows(Len(args[1]), m_menu_columns))

\* the longest of the items the last menu_show stored, and one more
LongestWidth ==
    MaxOfSeq([i \in 1 .. Len(PassedItems) |-> Len(PassedItems[i])]) + 1

\* C24: after a menu_show that passes the width guard m_menu_columns is at
\* least 1: it is 1 for the Context style and, for the Prompt style, the
\* whole part of (columns left - 1) / (longest item + 1), which is never 0.
C24_ColumnsAtLeastOne ==
    (op = "menu_show" /\ MenuWidthLeft > 2) =>
        /\ m_menu_columns >= 1
        /\ args[3] = "Context" => m_menu_columns = 1
        /\ args[3] = "Prompt"
               => m_menu_columns = (MenuWidthLeft - 1) \div LongestWidth

\* a Prompt menu of items of 7 code points shown on 8 columns: the items
\* are cut to 6 and there is one column
C24_Witness ==
    /\ op = "menu_show"
    /\ args[3] = "Prompt"
    /\ m_dimensions.column = 8
    /\ Len(args[1]) = 21
    /\ LongestWidth = 7
    /\ m_menu_columns = 1

\* the rectangles of two windows have a cell in common
Overlap(a, b) ==
    /\ a.pos.line < b.pos.line + b.size.line
    /\ b.pos.line < a.pos.line + a.size.line
    /\ a.pos.column < b.pos.column + b.size.column
    /\ b.pos.column < a.pos.column + a.size.column

\* C25: when info_show creates the info window while the menu window
\* exists, the two rectangles have no cell in common, for every anchor,
\* content and style.
C25_InfoAvoidsMenu ==
    (op = "info_show" /\ m_info.win /\ m_menu.win) => ~Overlap(m_info, m_menu)

\* an info box asked for below the anchor (0, 0), where the menu is: it is
\* placed on the row after the menu's last
C25_Witness ==
    /\ op = "info_show"
    /\ args[4] = "InlineBelow"
    /\ args[3] = Coord(0, 0)
    /\ m_info.win
    /\ m_menu.win
    /\ m_menu.pos = Coord(1, 0)
    /\ m_info.pos.line = m_menu.pos.line + m_menu.size.line
    /\ m_info.pos.column = 0

\* C26: after a check_resize that did its work, the next refresh() repaints
\* the whole terminal: while the clearok of check_resize has not been
\* answered by a doupdate, refresh() calls doupdate, whatever was called in
\* between.
C26_RefreshRepaintsAfterResize ==
    [][ (op' = "refresh" /\ curscr_clear)
            => LastCall(ops', <<"doupdate", "screen">>) > 0 ]_vars

\* the units among what get_key's reads gave, ERR left out
IsUnit(u) == u # ERR

UnitsPulled(p) == SelectSeq(p, IsUnit)

\* C27: get_key drops no unit.  The units it pulled and the units left are
\* the units there were, in order; reading ESC it pulls as many units as
\* the key it returns is made of (one for Escape, three for FocusIn and
\* FocusOut, two for the others), so that after ESC [ x with x neither I
\* nor O the unit x is the next one to be read.
C27_NoInputDropped ==
    [][ (op' = "get_key" /\ resize_pending = 0 /\ Avail # << >>)
            => /\ Avail = UnitsPulled(pulled') \o Avail'
               /\ Head(Avail) = 27
                      => Len(UnitsPulled(pulled'))
                             = IF key' = Named("Escape") THEN 1
                               ELSE IF key' \in {Named("FocusIn"),
                                                 Named("FocusOut")}
                               THEN 3 ELSE 2
               /\ (Len(Avail) >= 3 /\ Avail[1] = 27 /\ Avail[2] = 91
                                   /\ Avail[3] \notin {73, 79})
                      => Avail' # << >> /\ Head(Avail') = Avail[3]
      ]_vars

\* the anchor the last menu_show used
MenuAnchor ==
    IF args[3] = "Prompt"
    THEN Coord(IF m_status_on_top THEN 0 ELSE m_dimensions.line, 0)
    ELSE IF m_status_on_top THEN Coord(args[2].line + 1, args[2].column)
    ELSE args[2]

\* C28: a menu window menu_show creates has its first row at 0 or below and
\* its last row on the screen; it starts on the row after the anchor when
\* it ends before the last line of the dimensions, and else its height
\* above the anchor.
C28_MenuOnScreen ==
    (op = "menu_show" /\ m_menu.win) =>
        LET height == m_menu.size.line
            below  == MenuAnchor.line + 1
        IN  /\ m_menu.pos.line >= 0
            /\ m_menu.pos.line + height <= m_dimensions.line + 1
            /\ m_menu.pos.line = IF below + height < m_dimensions.line
                                 THEN below ELSE MenuAnchor.line - height

====
